---- MODULE Spec2Model ----
(***************************************************************************)
(* vip-manager: the leadership watcher (ConsulLeaderChecker), the state    *)
(* coordinator (IPManager.SyncStates) and the reconciler                   *)
(* (IPManager.applyLoop), together with the coordination store, the OS     *)
(* address table and the cancellation context they run against.            *)
(***************************************************************************)
EXTENDS Integers, Sequences, FiniteSets, TLC

\* ---- bounds of the model ------------------------------------------------
MaxIndex == 2     \* the leader marker is written at most this many times

Nodes == {"node1", "node2"}
nodename == "node1"

VARIABLES
    ctxDone,          \* ctx.Done() is closed
    panicked,         \* the process died in panic(err)
    \* IPManager
    currentState,     \* m.currentState (DesiredState)
    stateLock,        \* owner of m.stateLock: "free", "apply" or "sync"
    \* applyLoop goroutine; its locals are FALSE outside their scope
    apPc, actualState, desiredState,
    \* SyncStates; newState is FALSE outside its case
    syPc, newState,
    \* ConsulLeaderChecker.GetChangeNotificationStream; waitIndex is
    \* queryOptions.WaitIndex, state is FALSE outside its iteration
    wPc, state, waitIndex, wResult,
    \* coordination store: the leader marker
    markerPresent, markerValue, modifyIndex,
    \* OS address table: is the VIP on the interface
    addr,
    \* an external fault is present: while it lasts `ip addr add/delete` may
    \* fail and the address may be changed from outside the process
    externalFault,
    \* history
    lastOp,           \* last `ip addr` mutation issued: "none", "add", "delete"
    failedSinceWait,  \* a mutation failed and applyLoop has not waited since
    lastExit,         \* how the last `ip addr add/delete` ended, "none" once
                      \* the next pass has begun
    lastRet,          \* what runAddressConfiguration returned for it
    finalDeconfigs,   \* calls of DeconfigureAddress at line 58
    lastDelivered,    \* last boolean received from the states channel
    prevDelivered,    \* the one received before it
    trueDelivered,    \* some true has been received from the states channel
    lastEmitIdx       \* ModifyIndex behind the watcher's last emission, -1 if none

ipVars == <<currentState, stateLock>>
apVars == <<apPc, actualState, desiredState>>
syVars == <<syPc, newState>>
wVars == <<wPc, state, waitIndex, wResult>>
storeVars == <<markerPresent, markerValue, modifyIndex>>
envVars == <<externalFault>>
histVars == <<lastOp, lastExit, lastRet, failedSinceWait, finalDeconfigs, lastDelivered, prevDelivered, trueDelivered, lastEmitIdx>>
vars == <<ctxDone, panicked, ipVars, apVars, syVars, wVars, storeVars, addr, envVars, histVars>>

\* NewIPManager, line 28: currentState: false
InitialDesired_True == TRUE
InitialDesired == FALSE

\* NewIPManager, NewConsulLeaderChecker, queryOptions{}; both goroutines at
\* their first statement.
Init ==
    /\ ctxDone = FALSE
    /\ panicked = FALSE
    /\ currentState = InitialDesired
    /\ stateLock = "free"
    /\ apPc = "query" /\ actualState = FALSE /\ desiredState = FALSE
    /\ syPc = "select" /\ newState = FALSE
    /\ wPc = "get" /\ state = FALSE /\ waitIndex = 0 /\ wResult = "none"
    /\ markerPresent = FALSE /\ markerValue = "node2" /\ modifyIndex = 0
    /\ addr \in BOOLEAN
    /\ externalFault = FALSE
    /\ lastOp = "none" /\ lastExit = "none" /\ lastRet = "none"
    /\ failedSinceWait = FALSE /\ finalDeconfigs = 0
    /\ lastDelivered = FALSE /\ prevDelivered = FALSE /\ trueDelivered = FALSE
    /\ lastEmitIdx = -1

Broadcast_Lost(pc) == pc

\* sync.Cond.Broadcast: every goroutine blocked in Wait leaves the wait and
\* goes on to re-acquire the lock; a goroutine not in Wait is unaffected.
Broadcast(pc) == IF pc = "waiting" THEN "relock" ELSE pc

\* ---- OS helpers -----------------------------------------------------------

\* QueryAddress, lines 122-133: true iff a line of `ip addr show` contains
\* "inet <cidr>", i.e. iff the address is on the interface.
QueryResult(present) == present

\* runAddressConfiguration: the address table after `ip addr <action>` ran
\* with outcome ok (exit 0); any other outcome leaves the table alone.
AddrAfter(action, present, ok) ==
    IF ok THEN (action = "add") ELSE present

\* runAddressConfiguration, line 150: how `ip addr <action>` can end.  exit0:
\* done; exit2: the kernel refused (the address is already there on add, is
\* not there on delete, or another kernel error); exit1: another failure of
\* ip; noexec: c.Run() could not run it.  Without an external fault the
\* command does its work, or finds it done.
ExitOutcomes(action, present, fault) ==
    LET already == (present = (action = "add"))
    IN (IF already THEN {"exit2"} ELSE {"exit0"})
         \cup (IF fault THEN {"exit2", "exit1", "noexec"} ELSE {})

\* runAddressConfiguration, lines 152-170: exit status 2 and a nil error give
\* true, any other ExitError and any other error give false.
RunReturns_OnlyZero(exit) == IF exit = "exit0" THEN "true" ELSE "false"
RunReturns(exit) == IF exit \in {"exit0", "exit2"} THEN "true" ELSE "false"

\* applyLoop lines 42, 44-48
NeedsChange(actual, desired) == actual # desired
ActionFor_Swapped(desired) == IF desired THEN "delete" ELSE "add"
ActionFor(desired) == IF desired THEN "add" ELSE "delete"

\* ---- applyLoop ------------------------------------------------------------

\* line 38: actualState := m.QueryAddress()
ApplyQuery ==
    /\ ~panicked /\ apPc = "query"
    /\ actualState' = QueryResult(addr)
    /\ apPc' = "lock"
    /\ lastExit' = "none" /\ lastRet' = "none"
    /\ UNCHANGED <<ctxDone, panicked, ipVars, desiredState, syVars, wVars, storeVars, addr, envVars, lastOp, failedSinceWait, finalDeconfigs, lastDelivered, prevDelivered, trueDelivered, lastEmitIdx>>

\* lines 112-120: StdoutPipe or Start fails, QueryAddress panics and the
\* process dies with every goroutine in it.
ApplyQueryPanic ==
    /\ ~panicked /\ apPc = "query"
    /\ panicked' = TRUE
    /\ UNCHANGED <<ctxDone, ipVars, apVars, syVars, wVars, storeVars, addr, envVars, histVars>>

\* line 39: m.stateLock.Lock()
ApplyLock ==
    /\ ~panicked /\ apPc = "lock" /\ stateLock = "free"
    /\ stateLock' = "apply"
    /\ apPc' = "read"
    /\ UNCHANGED <<ctxDone, panicked, currentState, actualState, desiredState, syVars, wVars, storeVars, addr, envVars, histVars>>

\* lines 40-42: snapshot of m.currentState and the comparison
ApplyRead ==
    /\ ~panicked /\ apPc = "read"
    /\ desiredState' = currentState
    /\ apPc' = IF NeedsChange(actualState, currentState) THEN "unlock_ne" ELSE "wait"
    /\ UNCHANGED <<ctxDone, panicked, ipVars, actualState, syVars, wVars, storeVars, addr, envVars, histVars>>

ApplyUnlockNe_KeepLock ==
    /\ ~panicked /\ apPc = "unlock_ne"
    /\ apPc' = "mutate"
    /\ UNCHANGED <<ctxDone, panicked, ipVars, actualState, desiredState, syVars, wVars, storeVars, addr, envVars, histVars>>

\* line 43: m.stateLock.Unlock() on the actual != desired branch
ApplyUnlockNe ==
    /\ ~panicked /\ apPc = "unlock_ne"
    /\ stateLock' = "free"
    /\ apPc' = "mutate"
    /\ UNCHANGED <<ctxDone, panicked, currentState, actualState, desiredState, syVars, wVars, storeVars, addr, envVars, histVars>>

\* lines 44-48: ConfigureAddress or DeconfigureAddress, then back to line 38.
\* The command changes the table (exit 0), finds it already in the wanted
\* state, or fails genuinely and leaves it unchanged.
ApplyMutate ==
    /\ ~panicked /\ apPc = "mutate"
    /\ LET action == ActionFor(desiredState)
           already == (addr = (action = "add"))
       IN \E exit \in ExitOutcomes(action, addr, externalFault) :
            /\ addr' = AddrAfter(action, addr, exit = "exit0")
            /\ failedSinceWait' = (failedSinceWait \/ (exit # "exit0" /\ ~already))
            /\ lastOp' = action
            /\ lastExit' = exit
            /\ lastRet' = RunReturns(exit)
    /\ apPc' = "query" /\ actualState' = FALSE /\ desiredState' = FALSE
    /\ UNCHANGED <<ctxDone, panicked, ipVars, syVars, wVars, storeVars, envVars, finalDeconfigs, lastDelivered, prevDelivered, trueDelivered, lastEmitIdx>>

\* line 51, first half: m.recheck.Wait() unlocks stateLock and suspends
ApplyWait ==
    /\ ~panicked /\ apPc = "wait"
    /\ stateLock' = "free"
    /\ apPc' = "waiting"
    /\ UNCHANGED <<ctxDone, panicked, currentState, actualState, desiredState, syVars, wVars, storeVars, addr, envVars, histVars>>

\* line 51, second half: after a Broadcast, Wait re-locks stateLock and returns
ApplyRelock ==
    /\ ~panicked /\ apPc = "relock" /\ stateLock = "free"
    /\ stateLock' = "apply"
    /\ apPc' = "unlock_eq"
    /\ failedSinceWait' = FALSE
    /\ UNCHANGED <<ctxDone, panicked, currentState, actualState, desiredState, syVars, wVars, storeVars, addr, envVars, lastOp, lastExit, lastRet, finalDeconfigs, lastDelivered, prevDelivered, trueDelivered, lastEmitIdx>>

\* line 53: m.stateLock.Unlock() after the wait
ApplyUnlockEq ==
    /\ ~panicked /\ apPc = "unlock_eq"
    /\ stateLock' = "free"
    /\ apPc' = "checkctx"
    /\ UNCHANGED <<ctxDone, panicked, currentState, actualState, desiredState, syVars, wVars, storeVars, addr, envVars, histVars>>

\* lines 56-61: select { case <-ctx.Done(): ...; default: }
ApplyCheckCtx ==
    /\ ~panicked /\ apPc = "checkctx"
    /\ apPc' = IF ctxDone THEN "final" ELSE "query"
    /\ actualState' = FALSE /\ desiredState' = FALSE
    /\ UNCHANGED <<ctxDone, panicked, ipVars, syVars, wVars, storeVars, addr, envVars, histVars>>

\* lines 58-59: the final m.DeconfigureAddress() and return
ApplyFinal ==
    /\ ~panicked /\ apPc = "final"
    /\ \E exit \in ExitOutcomes("delete", addr, externalFault) :
            /\ addr' = AddrAfter("delete", addr, exit = "exit0")
            /\ lastExit' = exit
            /\ lastRet' = RunReturns(exit)
    /\ lastOp' = "delete"
    /\ finalDeconfigs' = finalDeconfigs + 1
    /\ apPc' = "done"
    /\ UNCHANGED <<ctxDone, panicked, ipVars, actualState, desiredState, syVars, wVars, storeVars, envVars, failedSinceWait, lastDelivered, prevDelivered, trueDelivered, lastEmitIdx>>

applyLoop ==
    \/ ApplyQuery \/ ApplyQueryPanic \/ ApplyLock \/ ApplyRead \/ ApplyUnlockNe
    \/ ApplyMutate \/ ApplyWait \/ ApplyRelock \/ ApplyUnlockEq
    \/ ApplyCheckCtx \/ ApplyFinal

\* ---- SyncStates -----------------------------------------------------------

\* line 80: if m.currentState != newState
ShouldUpdate_OnlyRaise(cur, new) == cur # new /\ new
ShouldUpdate_Always(cur, new) == TRUE
ShouldUpdate(cur, new) == cur # new

\* line 89: wg.Wait() returns once applyLoop has returned and wg.Done() ran
WgWaitReturns_NoWait(pc) == TRUE
WgWaitReturns(pc) == pc = "done"

\* lines 87-90: what the cancellation case does to m.currentState: nothing
StateAfterCancel_ForceFalse(cur) == FALSE
StateAfterCancel(cur) == cur

\* line 78: case newState := <-states, the rendezvous with the watcher's
\* `out <- state` of part_000 line 76 (which then continues at line 55)
SyncReceive ==
    /\ ~panicked /\ syPc = "select" /\ wPc = "send"
    /\ newState' = state
    /\ syPc' = "lock"
    /\ wPc' = "get" /\ state' = FALSE
    /\ lastEmitIdx' = waitIndex
    /\ prevDelivered' = lastDelivered
    /\ lastDelivered' = state
    /\ trueDelivered' = (trueDelivered \/ state)
    /\ UNCHANGED <<ctxDone, panicked, ipVars, apVars, waitIndex, wResult, storeVars, addr, envVars, lastOp, lastExit, lastRet, failedSinceWait, finalDeconfigs>>

\* line 79: m.stateLock.Lock()
SyncLock ==
    /\ ~panicked /\ syPc = "lock" /\ stateLock = "free"
    /\ stateLock' = "sync"
    /\ syPc' = "cmp"
    /\ UNCHANGED <<ctxDone, panicked, currentState, apVars, newState, wVars, storeVars, addr, envVars, histVars>>

\* line 80
SyncCompare ==
    /\ ~panicked /\ syPc = "cmp"
    /\ syPc' = IF ShouldUpdate(currentState, newState) THEN "write" ELSE "unlock"
    /\ UNCHANGED <<ctxDone, panicked, ipVars, apVars, newState, wVars, storeVars, addr, envVars, histVars>>

\* line 81: m.currentState = newState
SyncWrite ==
    /\ ~panicked /\ syPc = "write"
    /\ currentState' = newState
    /\ syPc' = "bcast"
    /\ UNCHANGED <<ctxDone, panicked, stateLock, apVars, newState, wVars, storeVars, addr, envVars, histVars>>

\* line 82: m.recheck.Broadcast()
SyncBroadcast ==
    /\ ~panicked /\ syPc = "bcast"
    /\ apPc' = Broadcast(apPc)
    /\ syPc' = "unlock"
    /\ UNCHANGED <<ctxDone, panicked, ipVars, actualState, desiredState, newState, wVars, storeVars, addr, envVars, histVars>>

\* line 84: m.stateLock.Unlock()
SyncUnlock ==
    /\ ~panicked /\ syPc = "unlock"
    /\ stateLock' = "free"
    /\ syPc' = "select" /\ newState' = FALSE
    /\ UNCHANGED <<ctxDone, panicked, currentState, apVars, wVars, storeVars, addr, envVars, histVars>>

SyncTick_NoBroadcast ==
    /\ ~panicked /\ syPc = "select"
    /\ UNCHANGED vars

\* lines 85-86: case <-ticker.C: m.recheck.Broadcast(), without the lock
SyncTick ==
    /\ ~panicked /\ syPc = "select"
    /\ apPc' = Broadcast(apPc)
    /\ UNCHANGED <<ctxDone, panicked, ipVars, actualState, desiredState, syVars, wVars, storeVars, addr, envVars, histVars>>

\* lines 87-88: case <-ctx.Done(): m.recheck.Broadcast(), without the lock
SyncCancel ==
    /\ ~panicked /\ syPc = "select" /\ ctxDone
    /\ currentState' = StateAfterCancel(currentState)
    /\ apPc' = Broadcast(apPc)
    /\ syPc' = "wgwait"
    /\ UNCHANGED <<ctxDone, panicked, stateLock, actualState, desiredState, newState, wVars, storeVars, addr, envVars, histVars>>

\* lines 89-90: wg.Wait(); return
SyncWgWait ==
    /\ ~panicked /\ syPc = "wgwait" /\ WgWaitReturns(apPc)
    /\ syPc' = "returned"
    /\ UNCHANGED <<ctxDone, panicked, ipVars, apVars, newState, wVars, storeVars, addr, envVars, histVars>>

SyncStates ==
    \/ SyncReceive \/ SyncLock \/ SyncCompare \/ SyncWrite \/ SyncBroadcast
    \/ SyncUnlock \/ SyncTick \/ SyncCancel \/ SyncWgWait

\* ---- GetChangeNotificationStream -------------------------------------------

\* lines 57 and 74: the loop is left only when the context is cancelled
MayBreak_Always(done) == TRUE
MayBreak(done) == done

\* line 70: state := string(resp.Value) == c.nodename
IsLeader(value) == value = nodename

\* line 81: return ctx.Err()
CtxErr(done) == IF done THEN "Canceled" ELSE "nil"

\* lines 55-63: kv.Get returns an error
WatchGetError ==
    /\ ~panicked /\ wPc = "get"
    /\ wPc' = IF MayBreak(ctxDone) THEN "ret" ELSE "sleep"
    /\ UNCHANGED <<ctxDone, panicked, ipVars, apVars, syVars, state, waitIndex, wResult, storeVars, addr, envVars, histVars>>

WatchGetAbsent_EmitFalse ==
    /\ ~panicked /\ wPc = "get" /\ ~markerPresent
    /\ state' = FALSE
    /\ wPc' = "send"
    /\ UNCHANGED <<ctxDone, panicked, ipVars, apVars, syVars, waitIndex, wResult, storeVars, addr, envVars, histVars>>

\* lines 55, 64-68: kv.Get returns no error and no record (key absent)
WatchGetAbsent ==
    /\ ~panicked /\ wPc = "get" /\ ~markerPresent
    /\ wPc' = "sleep"
    /\ UNCHANGED <<ctxDone, panicked, ipVars, apVars, syVars, state, waitIndex, wResult, storeVars, addr, envVars, histVars>>

\* lines 61, 66: time.Sleep(1 * time.Second); continue
WatchSleep ==
    /\ ~panicked /\ wPc = "sleep"
    /\ wPc' = "get"
    /\ UNCHANGED <<ctxDone, panicked, ipVars, apVars, syVars, state, waitIndex, wResult, storeVars, addr, envVars, histVars>>

\* lines 55, 70-71: kv.Get returns the record. The blocking read returns when
\* ModifyIndex has passed WaitIndex, or when WaitTime (line 33) has run out,
\* and then with the record as it is.
WatchGetOk ==
    /\ ~panicked /\ wPc = "get" /\ markerPresent
    /\ state' = IsLeader(markerValue)
    /\ waitIndex' = modifyIndex
    /\ wPc' = "send"
    /\ UNCHANGED <<ctxDone, panicked, ipVars, apVars, syVars, wResult, storeVars, addr, envVars, histVars>>

\* lines 73-75: case <-ctx.Done(): break checkLoop
WatchSendCancel ==
    /\ ~panicked /\ wPc = "send" /\ MayBreak(ctxDone)
    /\ wPc' = "ret" /\ state' = FALSE
    /\ UNCHANGED <<ctxDone, panicked, ipVars, apVars, syVars, waitIndex, wResult, storeVars, addr, envVars, histVars>>

\* line 81
WatchReturn ==
    /\ ~panicked /\ wPc = "ret"
    /\ wResult' = CtxErr(ctxDone)
    /\ wPc' = "returned"
    /\ UNCHANGED <<ctxDone, panicked, ipVars, apVars, syVars, state, waitIndex, storeVars, addr, envVars, histVars>>

GetChangeNotificationStream ==
    \/ WatchGetError \/ WatchGetAbsent \/ WatchSleep \/ WatchGetOk
    \/ WatchSendCancel \/ WatchReturn

\* ---- environment ----------------------------------------------------------
\* (followed up to the death of the process, not beyond)

\* the caller cancels the context
Cancel ==
    /\ ~panicked /\ ~ctxDone
    /\ ctxDone' = TRUE
    /\ UNCHANGED <<panicked, ipVars, apVars, syVars, wVars, storeVars, addr, envVars, histVars>>

\* the election writes the leader marker; every write advances ModifyIndex
PutMarker ==
    /\ ~panicked /\ modifyIndex < MaxIndex
    /\ \E v \in Nodes : markerValue' = v
    /\ markerPresent' = TRUE
    /\ modifyIndex' = modifyIndex + 1
    /\ UNCHANGED <<ctxDone, panicked, ipVars, apVars, syVars, wVars, addr, envVars, histVars>>

\* the leader marker is deleted (session lost, key removed)
DeleteMarker ==
    /\ ~panicked /\ markerPresent /\ modifyIndex < MaxIndex
    /\ markerPresent' = FALSE
    /\ UNCHANGED <<ctxDone, panicked, ipVars, apVars, syVars, wVars, markerValue, modifyIndex, addr, envVars, histVars>>

\* somebody else adds or removes the address on the interface
Tamper ==
    /\ ~panicked /\ externalFault
    /\ addr' = ~addr
    /\ UNCHANGED <<ctxDone, panicked, ipVars, apVars, syVars, wVars, storeVars, envVars, histVars>>

\* an external fault sets in, or clears
FaultBegins ==
    /\ ~panicked /\ ~externalFault
    /\ externalFault' = TRUE
    /\ UNCHANGED <<ctxDone, panicked, ipVars, apVars, syVars, wVars, storeVars, addr, histVars>>

FaultEnds ==
    /\ ~panicked /\ externalFault
    /\ externalFault' = FALSE
    /\ UNCHANGED <<ctxDone, panicked, ipVars, apVars, syVars, wVars, storeVars, addr, histVars>>

Environment == Cancel \/ PutMarker \/ DeleteMarker \/ Tamper \/ FaultBegins \/ FaultEnds

Next == applyLoop \/ SyncStates \/ GetChangeNotificationStream \/ Environment

Spec == Init /\ [][Next]_vars

TypeOK ==
    /\ ctxDone \in BOOLEAN /\ panicked \in BOOLEAN
    /\ currentState \in BOOLEAN
    /\ stateLock \in {"free", "apply", "sync"}
    /\ apPc \in {"query", "lock", "read", "unlock_ne", "mutate", "wait", "waiting",
                 "relock", "unlock_eq", "checkctx", "final", "done"}
    /\ syPc \in {"select", "lock", "cmp", "write", "bcast", "unlock", "wgwait", "returned"}
    /\ wPc \in {"get", "sleep", "send", "ret", "returned"}
    /\ waitIndex \in 0..MaxIndex /\ modifyIndex \in 0..MaxIndex
    /\ lastEmitIdx \in -1..MaxIndex
    /\ externalFault \in BOOLEAN
    /\ finalDeconfigs \in 0..1
    /\ lastOp \in {"none", "add", "delete"}
    /\ lastExit \in {"none", "exit0", "exit2", "exit1", "noexec"}
    /\ lastRet \in {"none", "true", "false"}
    /\ lastDelivered \in BOOLEAN /\ prevDelivered \in BOOLEAN /\ trueDelivered \in BOOLEAN

\* The Go scheduler runs every runnable goroutine, sync.Mutex hands the lock
\* to a waiter that keeps asking (starvation mode), and select picks at random
\* among the cases that are ready, so a case that is ready again and again is
\* eventually taken.  The environment owes nothing.
Fairness ==
    /\ SF_vars(applyLoop)
    /\ SF_vars(SyncStates)
    /\ SF_vars(SyncTick)
    /\ SF_vars(SyncCancel)
    /\ WF_vars(GetChangeNotificationStream)
    /\ SF_vars(WatchSendCancel)

FairSpec == Spec /\ Fairness

\* The system for as long as the context is not cancelled and the query
\* command can be run: every step of Next that needs neither.
Running ==
    \/ ApplyQuery \/ ApplyLock \/ ApplyRead \/ ApplyUnlockNe \/ ApplyMutate
    \/ ApplyWait \/ ApplyRelock \/ ApplyUnlockEq \/ ApplyCheckCtx
    \/ SyncReceive \/ SyncLock \/ SyncCompare \/ SyncWrite \/ SyncBroadcast
    \/ SyncUnlock \/ SyncTick
    \/ WatchGetError \/ WatchGetAbsent \/ WatchSleep \/ WatchGetOk
    \/ PutMarker \/ DeleteMarker \/ Tamper \/ FaultBegins \/ FaultEnds

\* Convergence needs the reconciler and the coordinator to run and the ticker
\* to keep ticking; it needs nothing of the watcher.
RunningSpec ==
    Init /\ [][Running]_vars
         /\ SF_vars(applyLoop) /\ SF_vars(SyncStates) /\ SF_vars(SyncTick)

\* C1: if the context is never cancelled and no external fault persists (the
\* query command can be run, add/remove stop failing, the address is no longer
\* changed from outside), then, DesiredState changing finitely often and ticks
\* firing for ever, the address table eventually equals DesiredState and stays
\* equal to it.
C1_Convergence ==
    (<>[]~externalFault) => <>[](addr = currentState)

\* a true was delivered, the reconciler issued the configure, the address is
\* there and the reconciler is back in its wait
C1_Witness ==
    /\ ~ctxDone /\ ~panicked /\ ~externalFault
    /\ lastDelivered /\ currentState /\ lastOp = "add" /\ addr
    /\ apPc = "waiting"

\* C2: once the context is cancelled, applyLoop eventually makes its one
\* final DeconfigureAddress call and returns (no panic, no external fault).
C2_FinalDeconfigure ==
    ([]~panicked /\ []~externalFault) => (ctxDone ~> (apPc = "done" /\ finalDeconfigs = 1))

\* C3: shutdown never leaves SyncStates blocked in wg.Wait on an applyLoop
\* that is blocked in recheck.Wait: nobody is left to broadcast, so that state
\* lasts for ever and SyncStates never returns.
C3_ShutdownTerminates ==
    ~(syPc = "wgwait" /\ apPc = "waiting")

\* C4: whenever SyncStates has returned, applyLoop has returned, after its
\* final DeconfigureAddress call, and issues no further OS command.
C4_ShutdownOrdering ==
    syPc = "returned" => (apPc = "done" /\ finalDeconfigs = 1)

C4_Witness ==
    syPc = "returned" /\ lastOp = "delete"

\* C5: the watcher sends a boolean only if the marker's ModifyIndex has
\* advanced past the index behind its previous emission.
C5_EmitOnlyOnAdvance ==
    [][SyncReceive => waitIndex > lastEmitIdx]_vars

\* C6, as claimed: every snapshot applyLoop takes of m.currentState equals
\* the boolean most recently received from the states channel.
C6_SnapshotIsLastDelivered ==
    [][ApplyRead => desiredState' = lastDelivered]_vars

\* C6, amended: the snapshot equals the boolean most recently received,
\* except while SyncStates holds a received boolean and still waits for
\* stateLock; then it equals the boolean received before that one.
C6_SnapshotIsLastApplied ==
    [][ApplyRead => desiredState' = (IF syPc = "lock" THEN prevDelivered ELSE lastDelivered)]_vars

\* the snapshot was taken while a different boolean was already received
C6_Witness ==
    /\ apPc \in {"unlock_ne", "wait"} /\ syPc = "lock"
    /\ newState # currentState /\ desiredState = currentState

\* C7: applyLoop is never about to issue add/delete while an earlier attempt
\* has failed and it has not been through recheck.Wait since.
C7_NoTightRetry ==
    ~(apPc = "mutate" /\ failedSinceWait)

\* C8: no failure inside the reconciler loop kills the process.
C8_NeverFatal ==
    ~panicked

\* C9: once the context is cancelled, GetChangeNotificationStream eventually
\* returns (the process not having died).
C9_WatcherStops ==
    ([]~panicked) => (ctxDone ~> wPc = "returned")

\* C10: GetChangeNotificationStream leaves its loop only when the context is
\* cancelled, and what it returns is the context's cancellation error.
C10_OnlyOnCancel ==
    /\ wPc \in {"ret", "returned"} => ctxDone
    /\ wPc = "returned" => wResult = "Canceled"

C10_Witness ==
    wPc = "returned" /\ wResult = "Canceled" /\ markerPresent

\* C11: ConfigureAddress on an address that is already there, and
\* DeconfigureAddress on one that is not, ending with ip's "kernel refused"
\* exit status, return true and leave the address table as it was.
C11_Idempotent ==
    [][((ApplyMutate \/ ApplyFinal) /\ lastExit' = "exit2" /\ addr = (lastOp' = "add"))
         => (lastRet' = "true" /\ addr' = addr)]_vars

\* ConfigureAddress has just run on an address somebody else had added
C11_Witness ==
    /\ apPc = "query" /\ lastOp = "add" /\ lastExit = "exit2"
    /\ lastRet = "true" /\ addr /\ ~externalFault

\* C12, as claimed: once SyncStates has handled the cancellation,
\* m.currentState is false.
C12_ForcedFalse ==
    syPc \in {"wgwait", "returned"} => currentState = FALSE

\* C12, amended: handling the cancellation leaves m.currentState at the last
\* boolean delivered, true or false; the final DeconfigureAddress comes from
\* applyLoop seeing ctx.Done() after a wake, not from DesiredState.
C12_KeepsLastDelivered ==
    /\ syPc \in {"wgwait", "returned"} => currentState = lastDelivered
    /\ finalDeconfigs = 1 => ctxDone

\* shutdown is complete, the final deconfigure was made, DesiredState is true
C12_Witness ==
    syPc = "returned" /\ currentState /\ finalDeconfigs = 1 /\ lastOp = "delete"

\* C13: a tick broadcasts and leaves DesiredState alone; and if the address
\* table differs from DesiredState while applyLoop is blocked in recheck.Wait
\* (the address was changed from outside), then, the context not cancelled,
\* ticks going on and the external fault not lasting for ever, applyLoop gets
\* to query the address again with the table back at DesiredState.
C13_TamperRepaired ==
    /\ [][SyncTick => (currentState' = currentState /\ apPc' = Broadcast(apPc))]_vars
    /\ (<>[]~externalFault) =>
          ((apPc = "waiting" /\ addr # currentState) ~> (apPc = "query" /\ addr = currentState))

\* nothing was ever delivered, the address was changed while applyLoop was
\* waiting, and a tick has woken it
C13_Witness ==
    /\ ~ctxDone /\ ~panicked /\ lastEmitIdx = -1
    /\ apPc = "relock" /\ addr # currentState

\* C14: applyLoop does not hold stateLock while it runs an OS command
\* (QueryAddress, ConfigureAddress, DeconfigureAddress, the final one too) or
\* while it is blocked; it holds it only from line 39 to line 43 or 51 and
\* from the return of Wait to line 53, each at most two of its steps away
\* from the release; SyncStates holds it only in lines 79-84, and the watcher
\* never.
C14_LockDiscipline ==
    /\ stateLock \in {"free", "apply", "sync"}
    /\ apPc \in {"query", "mutate", "final"} => stateLock # "apply"
    /\ stateLock = "apply" <=> apPc \in {"read", "unlock_ne", "wait", "unlock_eq"}
    /\ stateLock = "sync" <=> syPc \in {"cmp", "write", "bcast", "unlock"}

\* applyLoop runs add/delete while SyncStates holds the lock
C14_Witness ==
    apPc = "mutate" /\ stateLock = "sync" /\ syPc = "write"

\* C15, as claimed (its consequence): DesiredState does not change for as
\* long as the record is absent.
C15_FrozenWhileAbsent ==
    [][(~markerPresent /\ ~markerPresent') => currentState' = currentState]_vars

\* nothing read earlier is on its way to DesiredState any more
NothingInFlight ==
    /\ wPc \in {"get", "sleep", "ret", "returned"}
    /\ syPc \in {"select", "wgwait", "returned"}

\* C15, amended: a kv.Get that fails, or that finds no record, makes the
\* watcher send nothing and leaves WaitIndex as it was; and once nothing read
\* earlier is in flight, nothing gets in flight and DesiredState does not
\* change for as long as the record stays absent.
C15_AbsentEmitsNothing ==
    [][/\ (WatchGetError \/ (wPc = "get" /\ ~markerPresent /\ wPc' # "get"))
         => /\ wPc' \in {"sleep", "ret"}
            /\ waitIndex' = waitIndex /\ lastEmitIdx' = lastEmitIdx
            /\ lastDelivered' = lastDelivered /\ currentState' = currentState
       /\ (~markerPresent /\ NothingInFlight /\ ~markerPresent')
         => (NothingInFlight' /\ currentState' = currentState)]_vars

\* the marker named this node and was then deleted: the watcher found it
\* absent and DesiredState is still true
C15_Witness ==
    /\ ~markerPresent /\ modifyIndex >= 1 /\ waitIndex = modifyIndex
    /\ wPc = "sleep" /\ syPc = "select" /\ currentState /\ ~ctxDone

\* C16: m.currentState changes only in SyncStates' write at line 81, made
\* holding stateLock and only with a delivered boolean that differs from it;
\* the next thing SyncStates does is the Broadcast, still holding the lock; a
\* tick, a cancellation and every step of applyLoop leave it unchanged.
C16_ProtectedWrite ==
    [][/\ currentState' # currentState
            => /\ syPc = "write" /\ syPc' = "bcast"
               /\ stateLock = "sync" /\ stateLock' = "sync"
               /\ currentState' = newState
       /\ syPc = "write" => newState # currentState
       /\ (syPc = "bcast" /\ syPc' # "bcast")
            => (apPc' = Broadcast(apPc) /\ syPc' = "unlock" /\ stateLock' = "sync")
       /\ (SyncTick \/ SyncCancel \/ applyLoop) => currentState' = currentState]_vars

\* a true was written and broadcast, the waiting applyLoop is woken, and
\* SyncStates still holds the lock
C16_Witness ==
    /\ syPc = "unlock" /\ stateLock = "sync" /\ newState /\ currentState
    /\ apPc = "relock"

\* C17: whenever applyLoop is blocked in recheck.Wait with no wake pending
\* (it has not been signalled, and SyncStates is not at its Broadcast of line
\* 82 with the lock in hand), m.currentState equals the snapshot applyLoop
\* compared before it waited: no change of DesiredState is slept through.
C17_NoLostWakeup ==
    (apPc = "waiting" /\ syPc # "bcast") => desiredState = currentState

\* a true was delivered and applied while applyLoop was not waiting; its
\* snapshot caught it and it now waits on it
C17_Witness ==
    /\ apPc = "waiting" /\ syPc = "select" /\ stateLock = "free"
    /\ lastDelivered /\ currentState /\ desiredState /\ ~ctxDone

\* C18: once the context is cancelled, applyLoop issues no ConfigureAddress.
C18_NoConfigureAfterCancel ==
    [][(ApplyMutate /\ ctxDone) => lastOp' # "add"]_vars

\* C19, as claimed: whenever applyLoop issues ConfigureAddress,
\* m.currentState is true at that moment.
C19_ConfigureOnlyWhileDesired ==
    [][(ApplyMutate /\ lastOp' = "add") => currentState]_vars

\* C19, amended: whenever applyLoop issues ConfigureAddress, its snapshot of
\* m.currentState is true and its query found the address absent; the
\* snapshot equals m.currentState for as long as applyLoop holds the lock it
\* was read under, and no longer.
C19_ConfigureOnlyOnTrueSnapshot ==
    [][/\ (ApplyMutate /\ lastOp' = "add") => (desiredState /\ ~actualState)
       /\ apPc \in {"unlock_ne", "wait"} => desiredState = currentState]_vars

\* ConfigureAddress has just been issued and DesiredState is false
C19_Witness ==
    /\ apPc = "query" /\ lastOp = "add" /\ lastExit = "exit0" /\ addr
    /\ ~currentState /\ syPc = "select" /\ ~externalFault

\* C20: as long as no true has been delivered on the states channel,
\* DesiredState is false and applyLoop has issued no ConfigureAddress; what
\* it issues is DeconfigureAddress, on an address it finds present.
C20_NoConfigureBeforeTrue ==
    ~trueDelivered => (~currentState /\ lastOp # "add")

\* no true was delivered yet and applyLoop has removed the address it found
C20_Witness ==
    /\ ~trueDelivered /\ ~ctxDone /\ apPc = "query"
    /\ lastOp = "delete" /\ lastExit = "exit0" /\ ~addr

====
